---- MODULE Spec2Model ----
(***************************************************************************)
(* A model of scan-server: main -> listDevices -> openDevice -> doScan     *)
(* (pathToEncoder, os.Create, showOptions, parseOptions, ReadImage,        *)
(* encode, deferred stream.Close) -> Conn.Close -> deferred sane.Exit.     *)
(*                                                                         *)
(* Strings are sequences of one-character strings, so that                 *)
(* strings.Contains, filepath.Ext and strings.ToLower are computed.        *)
(* The calls into the sane library, the os package and the image codecs    *)
(* are the program's inputs: each call's outcome is chosen with \E among   *)
(* the outcomes its signature allows.                                      *)
(***************************************************************************)
EXTENDS Integers, Sequences, FiniteSets, TLC

(* ------------------------------ bounds -------------------------------- *)

\* longest device name / identifier, in characters
MaxNameLen == 2

\* most devices sane.Devices() reports
MaxDevs == 2

\* longest request sequence handed to parseOptions
MaxArgs == 3

(* ------------------------------ strings ------------------------------- *)

Chars == {"a", "b"}

Names == UNION {[1..n -> Chars] : n \in 1..MaxNameLen}

Idents == UNION {[1..n -> Chars] : n \in 0..MaxNameLen}

Range(s) == {s[i] : i \in 1..Len(s)}

DevLists ==
  {l \in UNION {[1..n -> Names] : n \in 0..MaxDevs} :
      \A i, j \in 1..Len(l) : l[i] = l[j] => i = j}

\* a slip: strings.HasPrefix in place of strings.Contains
ContainsAsPrefix(s, sub) ==
  Len(sub) <= Len(s) /\ SubSeq(s, 1, Len(sub)) = sub

\* a slip: the arguments of strings.Contains swapped
ContainsSwapped(s, sub) ==
  \E i \in 0..(Len(sub) - Len(s)) : SubSeq(sub, i + 1, i + Len(s)) = s

\* strings.Contains(s, sub)
Contains(s, sub) ==
  \E i \in 0..(Len(s) - Len(sub)) : SubSeq(s, i + 1, i + Len(sub)) = sub

\* strings.ToLower on the letters the model's paths use
LowerChar(ch) ==
  CASE ch = "P" -> "p" [] ch = "N" -> "n" [] ch = "G" -> "g"
    [] ch = "J" -> "j" [] ch = "E" -> "e" [] ch = "T" -> "t"
    [] ch = "I" -> "i" [] ch = "F" -> "f" [] ch = "B" -> "b"
    [] ch = "M" -> "m" [] ch = "X" -> "x" [] ch = "D" -> "d"
    [] ch = "S" -> "s" [] ch = "A" -> "a" [] OTHER -> ch

ToLower(s) == [i \in 1..Len(s) |-> LowerChar(s[i])]

\* filepath.Ext: the suffix from the last "." of the last path element
ExtDots(path) ==
  {i \in 1..Len(path) :
      /\ path[i] = "."
      /\ \A j \in i..Len(path) : path[j] # "/"}

Ext(path) ==
  IF ExtDots(path) = {} THEN <<>>
  ELSE LET i == CHOOSE k \in ExtDots(path) : \A m \in ExtDots(path) : m <= k
       IN SubSeq(path, i, Len(path))

\* a slip: the extension compared without strings.ToLower
pathToEncoderCaseSensitive(path) ==
  LET ext == Ext(path)
  IN CASE ext = <<".", "p", "n", "g">> -> "png"
       [] ext = <<".", "j", "p", "g">> -> "jpeg"
       [] ext = <<".", "j", "p", "e", "g">> -> "jpeg"
       [] ext = <<".", "t", "i", "f">> -> "tiff"
       [] ext = <<".", "t", "i", "f", "f">> -> "tiff"
       [] OTHER -> "error"

\* pathToEncoder: the encoder's name, or "error" (unrecognized extension)
pathToEncoder(path) ==
  LET ext == ToLower(Ext(path))
  IN CASE ext = <<".", "p", "n", "g">> -> "png"
       [] ext = <<".", "j", "p", "g">> -> "jpeg"
       [] ext = <<".", "j", "p", "e", "g">> -> "jpeg"
       [] ext = <<".", "t", "i", "f">> -> "tiff"
       [] ext = <<".", "t", "i", "f", "f">> -> "tiff"
       [] OTHER -> "error"

(* --------------------------- option values ---------------------------- *)

\* A Go interface{} value handed to SetOption: kind "nil" (no case of the
\* type switch assigned v), "auto" (sane.Auto), or a typed value.  Reals are
\* fixed-point integers in field n.
Val(kind, b, n, s) == [kind |-> kind, b |-> b, n |-> n, s |-> s]
NilVal == Val("nil", FALSE, 0, "")
AutoVal == Val("auto", FALSE, 0, "")
BoolVal(b) == Val("bool", b, 0, "")
IntVal(n) == Val("int", FALSE, n, "")
FloatVal(n) == Val("float", FALSE, n, "")
StrVal(s) == Val("string", FALSE, 0, s)

NoRange == [on |-> FALSE, min |-> 0, max |-> 0, quant |-> 0]
RangeC(lo, hi, q) == [on |-> TRUE, min |-> lo, max |-> hi, quant |-> q]

\* sane.Option with the device's current value of it
Opt(name, type, rng, set, active, settable, automatic, val) ==
  [name |-> name, type |-> type, range |-> rng, set |-> set,
   isActive |-> active, isSettable |-> settable, isAutomatic |-> automatic,
   val |-> val]

(* ------------------------- the device's options ----------------------- *)

ResolutionRange == RangeC(100, 1200, 100)
ResolutionSet == {IntVal(75), IntVal(150), IntVal(300), IntVal(600)}
ModeSet == {StrVal("gray"), StrVal("color")}

OResolution == Opt("resolution", "int", ResolutionRange, {}, TRUE, TRUE, FALSE, IntVal(300))
OMode == Opt("mode", "string", NoRange, ModeSet, TRUE, TRUE, FALSE, StrVal("gray"))
OPreview == Opt("preview", "bool", NoRange, {}, TRUE, TRUE, FALSE, BoolVal(TRUE))

\* The option tables a device may report (sane.Conn.Options), each with the
\* values the device holds when the session opens.
Catalogs ==
  { <<OResolution>>,
    <<OResolution, OMode, OPreview>>,
    <<[OResolution EXCEPT !.range = NoRange, !.set = ResolutionSet], OMode, OPreview>>,
    <<[OResolution EXCEPT !.isAutomatic = TRUE], OMode, OPreview>>,
    <<[OResolution EXCEPT !.range = RangeC(100, 500, 100)], OMode, OPreview>>,
    <<[OResolution EXCEPT !.type = "float", !.val = FloatVal(300)], OMode, OPreview>>,
    <<[OResolution EXCEPT !.isSettable = FALSE], OMode, OPreview>>,
    <<OResolution, [OMode EXCEPT !.isActive = FALSE], OPreview>>,
    <<OResolution, [OMode EXCEPT !.set = {StrVal("gray"), StrVal("lineart")}], OPreview>>,
    <<OResolution, OMode, [OPreview EXCEPT !.type = "button", !.val = NilVal]>> }

\* The legal-value predicate of an option's constraint: a closed range with
\* an optional quantization step, a finite set, or no constraint.
Admits(o, v) ==
  IF o.range.on
  THEN /\ v.kind \in {"int", "float"}
       /\ o.range.min <= v.n /\ v.n <= o.range.max
       /\ (o.range.quant # 0 => (v.n - o.range.min) % o.range.quant = 0)
  ELSE o.set # {} => v \in o.set

Dist(a, b) == IF a >= b THEN a - b ELSE b - a

\* The value a backend settles on when it adjusts a numeric value to the
\* constraint instead of rejecting it (the Info result SetOption returns,
\* which parseOptions discards, reports the adjustment).
Constrain(o, v) ==
  IF o.range.on
  THEN LET lo == o.range.min
           hi == o.range.max
           q == o.range.quant
           w == IF v.n < lo THEN lo ELSE IF v.n > hi THEN hi ELSE v.n
           r == IF q = 0 THEN w ELSE lo + ((w - lo + (q \div 2)) \div q) * q
       IN [v EXCEPT !.n = IF r > hi THEN hi ELSE r]
  ELSE CHOOSE m \in o.set :
         \A x \in o.set :
            \/ Dist(m.n, v.n) < Dist(x.n, v.n)
            \/ (Dist(m.n, v.n) = Dist(x.n, v.n) /\ m.n <= x.n)

\* The results c.SetOption(o.Name, v) can have: res "ok" (err == nil) with
\* the value the device then holds, "inval" (the device rejects the request)
\* or "io" (the transport fails).
SetOutcomes(o, v) ==
  LET keep(r) == [res |-> r, val |-> o.val]
  IN {keep("io")} \cup
     ( IF ~o.isActive \/ ~o.isSettable THEN {keep("inval")}
       ELSE IF v.kind = "nil" THEN {keep("inval"), keep("ok")}
       ELSE IF v.kind = "auto"
            THEN (IF o.isAutomatic THEN {keep("ok")} ELSE {keep("inval")})
       ELSE IF v.kind # o.type THEN {keep("inval")}
       ELSE IF Admits(o, v) THEN {[res |-> "ok", val |-> v]}
       ELSE IF v.kind \in {"int", "float"}
            THEN {keep("inval"), [res |-> "ok", val |-> Constrain(o, v)]}
       ELSE {keep("inval")} )

(* ------------------------------ requests ------------------------------ *)

\* type Option struct: one field per possible type, and Auto
Req(name, b, i, f, s, auto) ==
  [Name |-> name, Bool |-> b, Int |-> i, Float |-> f, String |-> s, Auto |-> auto]

\* the requests doScan builds
ScanOptions ==
  << Req("resolution", FALSE, 600, 0, "", FALSE),
     Req("mode", FALSE, 0, 0, "color", FALSE),
     Req("preview", FALSE, 0, 0, "", FALSE) >>

ReqPool ==
  Range(ScanOptions) \cup
  { Req("resolution", FALSE, 650, 0, "", FALSE),
    Req("resolution", FALSE, 300, 0, "", TRUE),
    Req("depth", FALSE, 8, 0, "", FALSE) }

ArgLists == UNION {[1..n -> ReqPool] : n \in 0..MaxArgs}

(* ------------------------------- state -------------------------------- *)

VARIABLES
  pc,        \* the program's position
  devs,      \* the devices sane.Devices() reports, in its order
  sane,      \* the library: "off", "on" (after Init), "exited"
  exits,     \* calls of sane.Exit
  sessions,  \* every session sane.Open returned: [dev, closes]
  streams,   \* every stream os.Create returned: [closes]
  opts,      \* the open session's options (c.Options()) with their values
  ldDevs,    \* listDevices: devs
  ldIdx,     \* listDevices: position of the range loop
  c,         \* listDevices/doScan: the *sane.Conn, 0 for nil
  odName,    \* openDevice: name
  odConn,    \* openDevice: the *sane.Conn returned, 0 for nil
  odErr,     \* openDevice: the error returned
  odLog,     \* openDevice: the sane calls this invocation made
  fileName,  \* doScan: fileName
  enc,       \* doScan: enc, "none" before pathToEncoder returned
  dsLog,     \* doScan: the steps this invocation made
  poArgs,    \* parseOptions: args
  poIdx,     \* parseOptions: position of the range loop
  poLook,    \* parseOptions: the names findOption was called with
  poLog,     \* parseOptions: the SetOption calls made, with their results
  poRes      \* parseOptions: "run", "ok", "err" (returned) or "panic"

vars ==
  << pc, devs, sane, exits, sessions, streams, opts, ldDevs, ldIdx, c,
     odName, odConn, odErr, odLog, fileName, enc, dsLog,
     poArgs, poIdx, poLook, poLog, poRes >>

mainVars == << sane, exits >>
ldVars == << ldDevs, ldIdx, c >>
odVars == << odName, odConn, odErr, odLog >>
dsVars == << fileName, enc, dsLog, streams >>
poVars == << poArgs, poIdx, poLook, poLog, poRes >>

\* the state before anything ran, at position p with devices ds
Start(p, ds) ==
  /\ pc = p
  /\ devs = ds
  /\ sane = "off"
  /\ exits = 0
  /\ sessions = <<>>
  /\ streams = <<>>
  /\ opts = <<>>
  /\ ldDevs = <<>>
  /\ ldIdx = 0
  /\ c = 0
  /\ odConn = 0
  /\ odErr = "none"
  /\ odLog = <<>>
  /\ fileName = <<>>
  /\ enc = "none"
  /\ dsLog = <<>>
  /\ poArgs = <<>>
  /\ poIdx = 0
  /\ poLook = <<>>
  /\ poLog = <<>>
  /\ poRes = "run"

(* ----------------------------- openDevice ----------------------------- *)

\* sane.Open(name): on success a new session, with the options of its device
SaneOpen(name, ok, cat) ==
  /\ odLog' = Append(odLog, [op |-> "Open", name |-> name, ok |-> ok])
  /\ IF ok
     THEN /\ sessions' = Append(sessions, [dev |-> name, closes |-> 0])
          /\ odConn' = Len(sessions) + 1
          /\ odErr' = "none"
          /\ opts' = cat
     ELSE /\ odConn' = 0
          /\ odErr' = "open"
          /\ UNCHANGED << sessions, opts >>

\* a slip: the early return on err1 == nil is missing
OD_OpenNoReturn ==
  /\ pc = "od_open"
  /\ \E ok \in BOOLEAN :
     \E cat \in (IF ok THEN Catalogs ELSE {<<>>}) :
       /\ SaneOpen(odName, ok, cat)
       /\ pc' = "od_devices"
  /\ UNCHANGED << devs, mainVars, ldVars, odName, dsVars, poVars >>

\* c, err1 := sane.Open(name); if err1 == nil { return c, nil }
OD_Open ==
  /\ pc = "od_open"
  /\ \E ok \in BOOLEAN :
     \E cat \in (IF ok THEN Catalogs ELSE {<<>>}) :
       /\ SaneOpen(odName, ok, cat)
       /\ pc' = IF ok THEN "od_ret" ELSE "od_devices"
  /\ UNCHANGED << devs, mainVars, ldVars, odName, dsVars, poVars >>

\* a slip: err2 is dropped, as listDevices drops it, and the nil list then
\* yields "no device named"
OD_DevicesErrDropped ==
  /\ pc = "od_devices"
  /\ \E ok \in BOOLEAN :
       /\ odLog' = Append(odLog, [op |-> "Devices", name |-> <<>>, ok |-> ok])
       /\ odErr' = IF ok THEN odErr ELSE "notfound"
       /\ pc' = IF ok THEN "od_match" ELSE "od_ret"
  /\ UNCHANGED << devs, mainVars, ldVars, odName, odConn, dsVars, poVars,
                  sessions, opts >>

\* devs, err2 := sane.Devices(); if err2 != nil { return nil, err2 }
OD_Devices ==
  /\ pc = "od_devices"
  /\ \E ok \in BOOLEAN :
       /\ odLog' = Append(odLog, [op |-> "Devices", name |-> <<>>, ok |-> ok])
       /\ odErr' = IF ok THEN odErr ELSE "enum"
       /\ pc' = IF ok THEN "od_match" ELSE "od_ret"
  /\ UNCHANGED << devs, mainVars, ldVars, odName, odConn, dsVars, poVars,
                  sessions, opts >>

\* the devices whose name contains the identifier, by position
Matches(ds, name) == {i \in 1..Len(ds) : Contains(ds[i], name)}

\* a slip: the loop goes on after a match, so the last match is opened
LastMatch(ds, name) ==
  CHOOSE i \in Matches(ds, name) : \A j \in Matches(ds, name) : j <= i

FirstMatch(ds, name) ==
  CHOOSE i \in Matches(ds, name) : \A j \in Matches(ds, name) : i <= j

\* for _, d := range devs { if strings.Contains(d.Name, name) {
\*   return sane.Open(d.Name) } }; return nil, fmt.Errorf("no device named")
OD_Match ==
  /\ pc = "od_match"
  /\ IF Matches(devs, odName) = {}
     THEN /\ odErr' = "notfound"
          /\ UNCHANGED << odConn, odLog, sessions, opts >>
     ELSE \E ok \in BOOLEAN :
            \E cat \in (IF ok THEN Catalogs ELSE {<<>>}) :
              SaneOpen(devs[FirstMatch(devs, odName)], ok, cat)
  /\ pc' = "od_ret"
  /\ UNCHANGED << devs, mainVars, ldVars, odName, dsVars, poVars >>

\* openDevice(name) for every identifier and every list of devices
InitResolve ==
  \E name \in Idents, ds \in DevLists :
    /\ Start("od_open", ds)
    /\ odName = name

NextResolve == OD_Open \/ OD_Devices \/ OD_Match

SpecResolve == InitResolve /\ [][NextResolve]_vars

(* ---------------------------- parseOptions ---------------------------- *)

\* findOption: the position of the first option of that name, 0 for the error
findOption(os, name) ==
  IF \E i \in 1..Len(os) : os[i].name = name
  THEN CHOOSE i \in 1..Len(os) :
         os[i].name = name /\ \A j \in 1..(i - 1) : os[j].name # name
  ELSE 0

\* var v interface{}: sane.Auto, or the request's field of the option's type;
\* nil when no case of the switch matches the type
ValueFor(o, a) ==
  IF o.isAutomatic /\ a.Auto THEN AutoVal
  ELSE CASE o.type = "bool" -> BoolVal(a.Bool)
         [] o.type = "int" -> IntVal(a.Int)
         [] o.type = "float" -> FloatVal(a.Float)
         [] o.type = "string" -> StrVal(a.String)
         [] OTHER -> NilVal

\* the record of one c.SetOption(o.Name, v) call and its result
SetCall(o, v, r) ==
  [name |-> o.name, opt |-> o, val |-> v, res |-> r.res, old |-> o.val,
   new |-> r.val]

\* a slip: the error of SetOption is dropped and the loop goes on
PO_StepIgnoreErr ==
  /\ pc = "po_loop"
  /\ poIdx <= Len(poArgs)
  /\ LET a == poArgs[poIdx]
         i == findOption(opts, a.Name)
     IN /\ poLook' = Append(poLook, a.Name)
        /\ IF i = 0
           THEN /\ poRes' = "panic"
                /\ pc' = "po_panic"
                /\ UNCHANGED << opts, poLog, poIdx >>
           ELSE \E r \in SetOutcomes(opts[i], ValueFor(opts[i], a)) :
                  /\ poLog' = Append(poLog, SetCall(opts[i], ValueFor(opts[i], a), r))
                  /\ opts' = [opts EXCEPT ![i].val = r.val]
                  /\ poIdx' = poIdx + 1
                  /\ UNCHANGED << pc, poRes >>
  /\ UNCHANGED << devs, mainVars, sessions, ldVars, odVars, dsVars, poArgs >>

\* one turn of "for _, a := range args": findOption (panic on its error),
\* the choice of v, SetOption (return its error)
PO_Step ==
  /\ pc = "po_loop"
  /\ poIdx <= Len(poArgs)
  /\ LET a == poArgs[poIdx]
         i == findOption(opts, a.Name)
     IN /\ poLook' = Append(poLook, a.Name)
        /\ IF i = 0
           THEN /\ poRes' = "panic"
                /\ pc' = "po_panic"
                /\ UNCHANGED << opts, poLog, poIdx >>
           ELSE \E r \in SetOutcomes(opts[i], ValueFor(opts[i], a)) :
                  /\ poLog' = Append(poLog, SetCall(opts[i], ValueFor(opts[i], a), r))
                  /\ opts' = [opts EXCEPT ![i].val = r.val]
                  /\ IF r.res = "ok"
                     THEN /\ poIdx' = poIdx + 1
                          /\ UNCHANGED << pc, poRes >>
                     ELSE /\ poRes' = "err"
                          /\ pc' = "po_ret"
                          /\ UNCHANGED poIdx
  /\ UNCHANGED << devs, mainVars, sessions, ldVars, odVars, dsVars, poArgs >>

\* the loop is over: return nil
PO_Return ==
  /\ pc = "po_loop"
  /\ poIdx > Len(poArgs)
  /\ poRes' = "ok"
  /\ pc' = "po_ret"
  /\ UNCHANGED << devs, mainVars, sessions, opts, ldVars, odVars, dsVars,
                  poArgs, poIdx, poLook, poLog >>

\* parseOptions(c, args) on an open session, for every option table and
\* every request sequence
InitNegotiate ==
  \E cat \in Catalogs, args \in ArgLists :
    /\ pc = "po_loop"
    /\ devs = << <<"a">> >>
    /\ sane = "on"
    /\ exits = 0
    /\ sessions = << [dev |-> <<"a">>, closes |-> 0] >>
    /\ streams = <<>>
    /\ opts = cat
    /\ ldDevs = devs
    /\ ldIdx = 1
    /\ c = 1
    /\ odName = <<"a">>
    /\ odConn = 1
    /\ odErr = "none"
    /\ odLog = << [op |-> "Open", name |-> <<"a">>, ok |-> TRUE] >>
    /\ fileName = <<>>
    /\ enc = "none"
    /\ dsLog = <<>>
    /\ poArgs = args
    /\ poIdx = 1
    /\ poLook = <<>>
    /\ poLog = <<>>
    /\ poRes = "run"

NextNegotiate == PO_Step \/ PO_Return

SpecNegotiate == InitNegotiate /\ [][NextNegotiate]_vars

(* ------------------------------- doScan ------------------------------- *)

\* the fileName listDevices passes: "1.jpg"
ScanFile == <<"1", ".", "j", "p", "g">>

Step(name, ok) == [step |-> name, ok |-> ok, names |-> <<>>]

\* enc, err := pathToEncoder(fileName); if err != nil { panic(err) }
DS_PathToEncoder ==
  /\ pc = "ds_encoder"
  /\ enc' = pathToEncoder(fileName)
  /\ dsLog' = Append(dsLog, Step("encoder", enc' # "error"))
  /\ pc' = IF enc' = "error" THEN "unwind_ld" ELSE "ds_create"
  /\ UNCHANGED << devs, mainVars, sessions, streams, opts, ldVars, odVars,
                  fileName, poVars >>

\* the upper-case form of the letters of the recognized extensions
UpperChar(ch) ==
  CASE ch = "p" -> "P" [] ch = "n" -> "N" [] ch = "g" -> "G"
    [] ch = "j" -> "J" [] ch = "e" -> "E" [] ch = "t" -> "T"
    [] ch = "i" -> "I" [] ch = "f" -> "F" [] OTHER -> ch

\* every spelling of e in upper and lower case
RECURSIVE CaseVariants(_)
CaseVariants(e) ==
  IF e = <<>> THEN {<<>>}
  ELSE LET rest == CaseVariants(Tail(e))
       IN {<<h>> \o r : h \in {Head(e), UpperChar(Head(e))}, r \in rest}

PngExt == <<".", "p", "n", "g">>
JpgExt == <<".", "j", "p", "g">>
JpegExt == <<".", "j", "p", "e", "g">>
TifExt == <<".", "t", "i", "f">>
TiffExt == <<".", "t", "i", "f", "f">>

\* the ends of the paths doScan is given: the extensions the switch names
\* in every case, and others (none, a bare dot, no dot, a shorter, a longer
\* and a foreign one)
PathEnds ==
  UNION {CaseVariants(e) : e \in {PngExt, JpgExt, JpegExt, TifExt, TiffExt}}
    \cup {<<>>, <<".">>, <<"p", "n", "g">>, <<".", "p", "n">>,
          <<".", "p", "n", "g", "x">>, <<".", "b", "m", "p">>,
          <<".", "B", "M", "P">>}

\* directories (one with an extension of its own) and file-name stems
PathDirs ==
  {<<>>, <<"d", "/">>, <<"D", ".", "x", "/">>, <<"d", ".", "p", "n", "g", "/">>}

PathStems ==
  {<<>>, <<"s">>, <<"A", ".", "b">>, <<"x", ".", "p", "n", "g">>,
   <<"s", ".", "T", "I", "F">>}

Paths == {d \o st \o e : d \in PathDirs, st \in PathStems, e \in PathEnds}

\* doScan(c, fileName, args) on an open session, for every path
InitEncoder ==
  \E path \in Paths :
    /\ pc = "ds_encoder"
    /\ devs = << <<"a">> >>
    /\ sane = "on"
    /\ exits = 0
    /\ sessions = << [dev |-> <<"a">>, closes |-> 0] >>
    /\ streams = <<>>
    /\ opts = << OResolution >>
    /\ ldDevs = devs
    /\ ldIdx = 1
    /\ c = 1
    /\ odName = <<"a">>
    /\ odConn = 1
    /\ odErr = "none"
    /\ odLog = << [op |-> "Open", name |-> <<"a">>, ok |-> TRUE] >>
    /\ fileName = path
    /\ enc = "none"
    /\ dsLog = <<>>
    /\ poArgs = <<>>
    /\ poIdx = 0
    /\ poLook = <<>>
    /\ poLog = <<>>
    /\ poRes = "run"

NextEncoder == DS_PathToEncoder

SpecEncoder == InitEncoder /\ [][NextEncoder]_vars

\* stream, err := os.Create(fileName); if err != nil { panic(err) };
\* defer func() { ... stream.Close() ... }()
DS_Create ==
  /\ pc = "ds_create"
  /\ \E ok \in BOOLEAN :
       /\ dsLog' = Append(dsLog, Step("create", ok))
       /\ streams' = IF ok THEN Append(streams, [closes |-> 0]) ELSE streams
       /\ pc' = IF ok THEN "ds_show" ELSE "unwind_ld"
  /\ UNCHANGED << devs, mainVars, sessions, opts, ldVars, odVars, fileName,
                  enc, poVars >>

\* the names of the options showOptions reads and prints: the settable ones
Shown(os) ==
  LET settable == SelectSeq(os, LAMBDA o : o.isSettable)
  IN [i \in 1..Len(settable) |-> settable[i].name]

\* showOptions(c): c.Device on a nil c panics; otherwise c.Options() and,
\* for each settable option, c.GetOption and printOption
DS_ShowOptions ==
  /\ pc = "ds_show"
  /\ IF c = 0
     THEN /\ dsLog' = Append(dsLog, Step("show", FALSE))
          /\ pc' = "ds_unwind"
     ELSE /\ dsLog' = Append(dsLog, [Step("show", TRUE) EXCEPT !.names = Shown(opts)])
          /\ pc' = "ds_parse"
  /\ UNCHANGED << devs, mainVars, sessions, streams, opts, ldVars, odVars,
                  fileName, enc, poVars >>

\* var options []Option ...; parseOptions(c, options)
DS_ParseOptions ==
  /\ pc = "ds_parse"
  /\ poArgs' = ScanOptions
  /\ poIdx' = 1
  /\ poLook' = <<>>
  /\ poLog' = <<>>
  /\ poRes' = "run"
  /\ pc' = "po_loop"
  /\ UNCHANGED << devs, mainVars, sessions, opts, ldVars, odVars, dsVars >>

\* a slip: the error of parseOptions is dropped
DS_AfterParseErrDropped ==
  /\ pc = "po_ret"
  /\ dsLog' = Append(dsLog, Step("parse", poRes = "ok"))
  /\ pc' = "ds_read"
  /\ UNCHANGED << devs, mainVars, sessions, streams, opts, ldVars, odVars,
                  fileName, enc, poVars >>

\* if err := parseOptions(c, options); err != nil { panic(err) }
DS_AfterParse ==
  /\ pc = "po_ret"
  /\ dsLog' = Append(dsLog, Step("parse", poRes = "ok"))
  /\ pc' = IF poRes = "ok" THEN "ds_read" ELSE "ds_unwind"
  /\ UNCHANGED << devs, mainVars, sessions, streams, opts, ldVars, odVars,
                  fileName, enc, poVars >>

\* img, err := c.ReadImage(); if err != nil { panic(err) }
DS_ReadImage ==
  /\ pc = "ds_read"
  /\ \E ok \in BOOLEAN :
       /\ dsLog' = Append(dsLog, Step("read", ok))
       /\ pc' = IF ok THEN "ds_encode" ELSE "ds_unwind"
  /\ UNCHANGED << devs, mainVars, sessions, streams, opts, ldVars, odVars,
                  fileName, enc, poVars >>

\* if err := enc(stream, img); err != nil { panic(err) }
DS_Encode ==
  /\ pc = "ds_encode"
  /\ \E ok \in BOOLEAN :
       /\ dsLog' = Append(dsLog, Step("encode", ok))
       /\ pc' = IF ok THEN "ds_return" ELSE "ds_unwind"
  /\ UNCHANGED << devs, mainVars, sessions, streams, opts, ldVars, odVars,
                  fileName, enc, poVars >>

\* where doScan is left with its deferred function registered: by return,
\* by its own panic, or by the panic of parseOptions
DeferredRuns == pc \in {"ds_return", "ds_unwind", "po_panic"}

CloseStream(ok) ==
  /\ dsLog' = Append(dsLog, Step("close", ok))
  /\ streams' = [streams EXCEPT ![Len(streams)].closes = @ + 1]

\* a slip: stream.Close() as the last statement instead of deferred
DS_DeferredOnReturnOnly ==
  /\ DeferredRuns
  /\ \E ok \in BOOLEAN :
       IF pc = "ds_return"
       THEN /\ CloseStream(ok)
            /\ pc' = IF ok THEN "ld_close" ELSE "unwind_ld"
       ELSE /\ ok
            /\ pc' = "unwind_ld"
            /\ UNCHANGED << dsLog, streams >>
  /\ UNCHANGED << devs, mainVars, sessions, opts, ldVars, odVars, fileName,
                  enc, poVars >>

\* the deferred function: if err := stream.Close(); err != nil { panic(err) }
DS_Deferred ==
  /\ DeferredRuns
  /\ \E ok \in BOOLEAN :
       /\ CloseStream(ok)
       /\ pc' = IF pc = "ds_return" /\ ok THEN "ld_close" ELSE "unwind_ld"
  /\ UNCHANGED << devs, mainVars, sessions, opts, ldVars, odVars, fileName,
                  enc, poVars >>

(* --------------------------- listDevices, main ------------------------- *)

\* if err1 := sane.Init(); err1 != nil { panic(err1) }; defer sane.Exit()
Main_Init ==
  /\ pc = "main"
  /\ \E ok \in BOOLEAN :
       /\ sane' = IF ok THEN "on" ELSE "off"
       /\ pc' = IF ok THEN "ld_devices" ELSE "crashed"
  /\ UNCHANGED << devs, exits, sessions, opts, ldVars, odVars, dsVars, poVars >>

\* devs, _ := sane.Devices(): on an error devs is nil and the loop is empty
LD_Devices ==
  /\ pc = "ld_devices"
  /\ \E ok \in BOOLEAN :
       ldDevs' = IF ok THEN devs ELSE <<>>
  /\ ldIdx' = 1
  /\ pc' = "ld_loop"
  /\ UNCHANGED << devs, mainVars, sessions, opts, c, odVars, dsVars, poVars >>

\* for _, d := range devs { ... openDevice(d.Name); the locals of the
\* previous turn's calls are gone
LD_Next ==
  /\ pc = "ld_loop"
  /\ ldIdx <= Len(ldDevs)
  /\ odName' = ldDevs[ldIdx]
  /\ odConn' = 0
  /\ odErr' = "none"
  /\ odLog' = <<>>
  /\ c' = 0
  /\ fileName' = <<>>
  /\ enc' = "none"
  /\ dsLog' = <<>>
  /\ poArgs' = <<>>
  /\ poIdx' = 0
  /\ poLook' = <<>>
  /\ poLog' = <<>>
  /\ poRes' = "run"
  /\ pc' = "od_open"
  /\ UNCHANGED << devs, mainVars, sessions, streams, opts, ldDevs, ldIdx >>

\* c, _ := openDevice(d.Name); doScan(c, "1.jpg", nil)
LD_DoScan ==
  /\ pc = "od_ret"
  /\ c' = odConn
  /\ fileName' = ScanFile
  /\ pc' = "ds_encoder"
  /\ UNCHANGED << devs, mainVars, sessions, streams, opts, ldDevs, ldIdx,
                  odVars, enc, dsLog, poVars >>

\* c.Close(), and the next turn of the loop
LD_Close ==
  /\ pc = "ld_close"
  /\ IF c = 0
     THEN /\ pc' = "unwind_ld"
          /\ UNCHANGED << sessions, opts, ldIdx >>
     ELSE /\ sessions' = [sessions EXCEPT ![c].closes = @ + 1]
          /\ opts' = <<>>
          /\ ldIdx' = ldIdx + 1
          /\ pc' = "ld_loop"
  /\ UNCHANGED << devs, mainVars, ldDevs, c, odVars, dsVars, poVars >>

\* the loop is over: listDevices returns
LD_Return ==
  /\ pc = "ld_loop"
  /\ ldIdx > Len(ldDevs)
  /\ pc' = "main_exit"
  /\ UNCHANGED << devs, mainVars, sessions, opts, ldVars, odVars, dsVars, poVars >>

\* a slip: sane.Exit() as the last statement of main instead of deferred
Main_ExitOnReturnOnly ==
  /\ pc \in {"main_exit", "unwind_ld"}
  /\ sane' = IF pc = "main_exit" THEN "exited" ELSE sane
  /\ exits' = IF pc = "main_exit" THEN exits + 1 ELSE exits
  /\ pc' = IF pc = "main_exit" THEN "done" ELSE "crashed"
  /\ UNCHANGED << devs, sessions, opts, ldVars, odVars, dsVars, poVars >>

\* the deferred sane.Exit(), when main returns and when a panic unwinds
\* through listDevices (which defers nothing) and main
Main_Exit ==
  /\ pc \in {"main_exit", "unwind_ld"}
  /\ sane' = "exited"
  /\ exits' = exits + 1
  /\ pc' = IF pc = "main_exit" THEN "done" ELSE "crashed"
  /\ UNCHANGED << devs, sessions, opts, ldVars, odVars, dsVars, poVars >>

\* the device names of the whole program's runs: two unrelated names and
\* one that contains both
ScanNames == {<<"a">>, <<"b">>, <<"a", "b">>}

ScanDevLists == {l \in DevLists : Range(l) \subseteq ScanNames}

Init == \E ds \in ScanDevLists : Start("main", ds) /\ odName = <<>>

Next ==
  \/ Main_Init \/ LD_Devices \/ LD_Next \/ OD_Open \/ OD_Devices \/ OD_Match
  \/ LD_DoScan \/ DS_PathToEncoder \/ DS_Create \/ DS_ShowOptions
  \/ DS_ParseOptions \/ PO_Step \/ PO_Return \/ DS_AfterParse
  \/ DS_ReadImage \/ DS_Encode \/ DS_Deferred \/ LD_Close \/ LD_Return
  \/ Main_Exit

Spec == Init /\ [][Next]_vars

(* ------------------------ claims on openDevice ------------------------ *)

ExactOpened == odLog # <<>> /\ odLog[1].ok

ExactFailed == odLog # <<>> /\ ~odLog[1].ok

EnumCalls == {i \in 1..Len(odLog) : odLog[i].op = "Devices"}

\* C9: when the exact open of the identifier succeeds, openDevice returns
\* the session of the device of that name, without error, and never calls
\* sane.Devices().
C9_ExactOpenSkipsEnumeration ==
  ExactOpened =>
    /\ pc = "od_ret"
    /\ EnumCalls = {}
    /\ Len(odLog) = 1
    /\ odErr = "none"
    /\ odConn \in 1..Len(sessions)
    /\ sessions[odConn].dev = odName

C9_Witness ==
  /\ pc = "od_ret"
  /\ ExactOpened
  /\ odName \in Range(devs)

\* sub occurs in s as a run of consecutive characters
SubstringOf(sub, s) ==
  \E i \in 1..(Len(s) + 1) : \E j \in (i - 1)..Len(s) : SubSeq(s, i, j) = sub

\* the reported devices whose name has the identifier as a substring
Holders == {i \in 1..Len(devs) : SubstringOf(odName, devs[i])}

\* the identifier is a substring of exactly one reported device's name, and
\* a strict one: it is not that name
UniqueStrictMatch ==
  /\ Cardinality(Holders) = 1
  /\ \A i \in Holders : devs[i] # odName

TheHolder == devs[CHOOSE i \in Holders : TRUE]

\* C10 as claimed: for an identifier that is a strict substring of exactly
\* one known device's name and whose exact open fails, openDevice returns a
\* session for that device.
C10_Original ==
  (pc = "od_ret" /\ ExactFailed /\ UniqueStrictMatch) =>
    /\ odConn \in 1..Len(sessions)
    /\ sessions[odConn].dev = TheHolder

\* C10 amended: for such an identifier, if sane.Devices() fails openDevice
\* returns that failure and no session; otherwise it makes exactly one more
\* open call, for that device's exact name, and returns what it returns: the
\* device's session, or the open's failure and no session.
C10_UniqueSubstringOpensThatDevice ==
  (pc = "od_ret" /\ ExactFailed /\ UniqueStrictMatch) =>
    LET d == TheHolder
    IN /\ Len(odLog) >= 2
       /\ odLog[2].op = "Devices"
       /\ IF ~odLog[2].ok
          THEN Len(odLog) = 2 /\ odConn = 0 /\ odErr = "enum"
          ELSE /\ Len(odLog) = 3
               /\ odLog[3].op = "Open"
               /\ odLog[3].name = d
               /\ IF odLog[3].ok
                  THEN /\ odErr = "none"
                       /\ odConn \in 1..Len(sessions)
                       /\ sessions[odConn].dev = d
                  ELSE odConn = 0 /\ odErr = "open"

C10_Witness ==
  /\ pc = "od_ret"
  /\ ExactFailed
  /\ UniqueStrictMatch
  /\ Len(odLog) = 3
  /\ odLog[3].ok
  /\ odConn # 0

\* sane.Devices() was called and returned the list
Enumerated == Len(odLog) >= 2 /\ odLog[2].op = "Devices" /\ odLog[2].ok

\* sane.Devices() was called and failed
EnumFailed == Len(odLog) >= 2 /\ odLog[2].op = "Devices" /\ ~odLog[2].ok

\* C11: when the exact open fails and the enumeration returns a list in
\* which no device's name contains the identifier, openDevice returns the
\* "no device named" error and no session, and has made no open call
\* besides the exact one.
C11_NoMatchIsNotFound ==
  (pc = "od_ret" /\ ExactFailed /\ Enumerated /\ Holders = {}) =>
    /\ odErr = "notfound"
    /\ odConn = 0
    /\ sessions = <<>>
    /\ Len(odLog) = 2

C11_Witness ==
  /\ pc = "od_ret"
  /\ ExactFailed
  /\ Enumerated
  /\ Holders = {}
  /\ devs # <<>>
  /\ odErr = "notfound"

\* C12: when the exact open fails and sane.Devices() fails, openDevice
\* returns at once, with the enumeration's error (not "no device named"),
\* no session, and no further open call.
C12_EnumerationFailurePropagates ==
  EnumFailed =>
    /\ pc = "od_ret"
    /\ ExactFailed
    /\ odErr = "enum"
    /\ odConn = 0
    /\ sessions = <<>>
    /\ Len(odLog) = 2

C12_Witness ==
  /\ pc = "od_ret"
  /\ EnumFailed
  /\ Holders # {}

FirstHolder == CHOOSE i \in Holders : \A j \in Holders : i <= j

\* C19: after a failed exact open, at most one open call follows the
\* enumeration; it is for the first device, in the enumeration's order,
\* whose name contains the identifier; and openDevice returns with its
\* result: if it fails, no later matching device is tried.
C19_OnlyFirstMatchTried ==
  ExactFailed =>
    /\ Len(odLog) <= 3
    /\ Len(odLog) = 3 =>
         /\ pc = "od_ret"
         /\ Enumerated
         /\ odLog[3].op = "Open"
         /\ Holders # {}
         /\ odLog[3].name = devs[FirstHolder]
         /\ ~odLog[3].ok => (odConn = 0 /\ odErr = "open" /\ sessions = <<>>)
    /\ (pc = "od_ret" /\ Enumerated /\ Holders # {}) => Len(odLog) = 3

\* two devices match, and the open of the first of them failed
C19_Witness ==
  /\ pc = "od_ret"
  /\ ExactFailed
  /\ Cardinality(Holders) >= 2
  /\ Len(odLog) = 3
  /\ ~odLog[3].ok

(* ----------------------- claims on parseOptions ----------------------- *)

Last(q) == q[Len(q)]

AllOk(q) == \A j \in 1..Len(q) : q[j].res = "ok"

\* the writes to the option named n, by position in poLog
WritesTo(n) == {j \in 1..Len(poLog) : poLog[j].name = n}

LastWriteTo(n) == CHOOSE j \in WritesTo(n) : \A m \in WritesTo(n) : m <= j

\* C3: the lookups and the writes parseOptions makes follow the request
\* sequence, one each per request and in its order; only the last write can
\* have failed; when a request fails (its lookup panics or its write is
\* rejected) every request before it was written successfully and none after
\* it is looked up or written; and each option holds what the last write to
\* it left (nothing is rolled back).
C3_WritesArePrefixOfRequests ==
  LET k == Len(poLog)
      l == Len(poLook)
  IN /\ l <= Len(poArgs)
     /\ l \in {k, k + 1}
     /\ \A j \in 1..l : poLook[j] = poArgs[j].Name
     /\ \A j \in 1..k : poLog[j].name = poArgs[j].Name
     /\ AllOk(SubSeq(poLog, 1, k - 1))
     /\ (poRes = "run" => l = k /\ poIdx = k + 1 /\ AllOk(poLog))
     /\ (poRes = "ok" => l = k /\ k = Len(poArgs) /\ AllOk(poLog))
     /\ (poRes = "err" => l = k /\ k >= 1 /\ Last(poLog).res # "ok")
     /\ (poRes = "panic" => l = k + 1 /\ AllOk(poLog))
     /\ \A i \in 1..Len(opts) :
          (i = findOption(opts, opts[i].name) /\ WritesTo(opts[i].name) # {})
            => opts[i].val = poLog[LastWriteTo(opts[i].name)].new

\* a request fails in the middle of the sequence, after a successful write
C3_Witness ==
  /\ poRes = "err"
  /\ Len(poLog) = 2
  /\ Len(poArgs) = 3
  /\ poLog[1].res = "ok"
  /\ poLog[1].new # poLog[1].old

\* the request looked up last names no option of the device
UnknownLast == poLook # <<>> /\ findOption(opts, Last(poLook)) = 0

\* C5 as claimed: when a request names an option the device does not have,
\* parseOptions returns the failure as its error, and issues no write for
\* that request.
C5_Original ==
  UnknownLast => (poRes = "err" /\ Len(poLog) = Len(poLook) - 1)

\* a write of an explicit value to an option that is active and settable
Explicit(e) ==
  /\ e.opt.isActive
  /\ e.opt.isSettable
  /\ e.val.kind \in {"bool", "int", "float", "string"}

\* the write was accepted as it stands, or only the transport failed
Accepted(e) ==
  /\ e.res \in {"ok", "io"}
  /\ e.res = "ok" => e.new = e.val

\* the write failed and the device holds what it held
Rejected(e) == e.res # "ok" /\ e.new = e.old

\* C6 as claimed: for an option with a range and a quantization step q > 0,
\* negotiation accepts the values on the grid min, min+q, ... <= max and
\* rejects, without rounding, every other value.
C6_Original ==
  \A j \in 1..Len(poLog) :
    LET e == poLog[j]
    IN (Explicit(e) /\ e.opt.range.on /\ e.opt.range.quant > 0) =>
         IF Admits(e.opt, e.val) THEN Accepted(e) ELSE Rejected(e)

\* C7 as claimed: for an option with an enumerated set, negotiation accepts
\* the values listed and rejects every other value.
C7_Original ==
  \A j \in 1..Len(poLog) :
    LET e == poLog[j]
    IN (Explicit(e) /\ ~e.opt.range.on /\ e.opt.set # {}) =>
         IF e.val \in e.opt.set THEN Accepted(e) ELSE Rejected(e)

\* C8 as claimed, on its own example: the option "resolution", an integer
\* with range [100,1200], step 100 and value 300.  After a request for a
\* value the constraint admits (600) negotiation goes on and the device
\* holds that value (unless the transport failed); after a request for a
\* value it does not admit (650) parseOptions has failed and the device
\* still holds 300.
C8_Original ==
  (poLog # <<>> /\ Last(poLog).opt = OResolution) =>
    LET e == Last(poLog)
        held == opts[findOption(opts, e.name)].val
    IN IF Admits(e.opt, e.val)
       THEN e.res = "io" \/ (poRes \in {"run", "ok", "panic"} /\ held = e.val)
       ELSE poRes = "err" /\ held = IntVal(300)

KnownTypes == {"bool", "int", "float", "string"}

\* C13 as claimed: an option of a type other than boolean, integer, real or
\* string is skipped: no SetOption call is made for a request that targets
\* it, and it does not end the negotiation.
C13_Original ==
  \A j \in 1..Len(poLog) : poLog[j].opt.type \in KnownTypes

\* the request's field of the type t
FieldOf(a, t) ==
  CASE t = "bool" -> BoolVal(a.Bool)
    [] t = "int" -> IntVal(a.Int)
    [] t = "float" -> FloatVal(a.Float)
    [] t = "string" -> StrVal(a.String)

\* C18 as claimed: the value of every SetOption call is sane.Auto if and
\* only if the request asks for automatic and the option is automatic, and
\* otherwise it is the request's field of the option's type, which is
\* boolean, integer, real or string.
C18_Original ==
  \A j \in 1..Len(poLog) :
    LET e == poLog[j]
        a == poArgs[j]
    IN /\ e.val = AutoVal <=> (a.Auto /\ e.opt.isAutomatic)
       /\ e.val # AutoVal =>
            (e.opt.type \in KnownTypes /\ e.val = FieldOf(a, e.opt.type))

(* ------------------------ claims on the pipeline ---------------------- *)

Ended == pc \in {"done", "crashed"}

\* C1 as claimed: no session is closed twice, and when the program ends,
\* by return or by panic, every session that was opened has been closed
\* exactly once.
C1_Original ==
  /\ \A i \in 1..Len(sessions) : sessions[i].closes <= 1
  /\ Ended => \A i \in 1..Len(sessions) : sessions[i].closes = 1

\* doScan is running with its stream open and the deferred close pending
StreamPending ==
  pc \in {"ds_show", "ds_parse", "po_loop", "po_ret", "po_panic", "ds_read",
          "ds_encode", "ds_return", "ds_unwind"}

\* C2: no stream is closed twice; a stream that is not yet closed is the one
\* of the doScan that is still running; so once doScan is left, by return or
\* by a panic in negotiation, acquisition or encoding, the stream it opened
\* has been closed exactly once.
C2_StreamClosedOnceOnEveryExit ==
  \A i \in 1..Len(streams) :
    /\ streams[i].closes <= 1
    /\ streams[i].closes = 0 => (i = Len(streams) /\ StreamPending)

FailedAt(name) ==
  \E i \in 1..Len(dsLog) : dsLog[i].step = name /\ ~dsLog[i].ok

\* the program ended by the panic of a failed acquisition
C2_Witness ==
  /\ pc = "crashed"
  /\ FailedAt("read")
  /\ streams # <<>>
  /\ \A i \in 1..Len(streams) : streams[i].closes = 1

\* C4 as claimed: no sane.Open call is made before pathToEncoder has
\* returned an encoder for the destination of the pipeline invocation.
C4_Original ==
  (\E i \in 1..Len(odLog) : odLog[i].op = "Open") => enc \notin {"none", "error"}

\* C14 as claimed: no SetOption call is made for an option that is not
\* settable, and showOptions reads and prints settable options only.
C14_Original ==
  /\ \A j \in 1..Len(poLog) : poLog[j].opt.isSettable
  /\ \A i \in 1..Len(dsLog) :
       (dsLog[i].step = "show" /\ opts # <<>>) =>
         \A k \in 1..Len(dsLog[i].names) :
           \E m \in 1..Len(opts) :
             opts[m].name = dsLog[i].names[k] /\ opts[m].isSettable

\* doScan is running, or has returned to the c.Close() of listDevices
InPipeline ==
  pc \in {"ds_encoder", "ds_create", "ds_show", "ds_parse", "po_loop",
          "po_ret", "po_panic", "ds_read", "ds_encode", "ds_return",
          "ds_unwind", "ld_close"}

\* C20 as claimed: doScan and Close are invoked only on a session that
\* openDevice returned without error.
C20_Original ==
  InPipeline => (c # 0 /\ odErr = "none" /\ c \in 1..Len(sessions))

\* C15: sane.Exit is called at most once; before sane.Init has succeeded
\* the program is at its start or has ended by the panic of a failed Init,
\* having made no device call; wherever the program makes a device call
\* (every position between the two) Init has succeeded and Exit has not
\* been called; and when the program has ended after a successful Init, by
\* return or by panic, Exit has been called exactly once.
C15_DeviceUseBracketedByInitExit ==
  /\ exits <= 1
  /\ pc = "main" => (sane = "off" /\ exits = 0)
  /\ pc \notin {"main", "done", "crashed"} => (sane = "on" /\ exits = 0)
  /\ pc = "done" => (sane = "exited" /\ exits = 1)
  /\ pc = "crashed" =>
       \/ sane = "exited" /\ exits = 1
       \/ /\ sane = "off" /\ exits = 0
          /\ ldIdx = 0 /\ sessions = <<>> /\ odLog = <<>> /\ dsLog = <<>>

\* the program ended by the panic of a failed encoder, with a session used
C15_Witness ==
  /\ pc = "crashed"
  /\ exits = 1
  /\ sessions # <<>>
  /\ FailedAt("encode")

StepOrder(n) ==
  CASE n = "encoder" -> 1 [] n = "create" -> 2 [] n = "show" -> 3
    [] n = "parse" -> 4 [] n = "read" -> 5 [] n = "encode" -> 6
    [] n = "close" -> 7

Did(name) == \E i \in 1..Len(dsLog) : dsLog[i].step = name

\* C17: within one doScan the steps are made in the pipeline's order, each
\* at most once; every step but the deferred close of the stream is made
\* only after all steps before it succeeded; ReadImage is called only after
\* parseOptions returned nil, having written every request successfully;
\* the encoder is called only after ReadImage returned an image; and once
\* parseOptions has failed no further write, acquisition or encoding is made.
C17_StepsInOrderNoRetry ==
  /\ \A i, j \in 1..Len(dsLog) :
       i < j => StepOrder(dsLog[i].step) < StepOrder(dsLog[j].step)
  /\ \A i \in 1..Len(dsLog) :
       dsLog[i].step # "close" => \A j \in 1..(i - 1) : dsLog[j].ok
  /\ Did("read") =>
       /\ poRes = "ok"
       /\ Len(poLog) = Len(poArgs)
       /\ AllOk(poLog)
  /\ Did("encode") => (Did("read") /\ ~FailedAt("read"))
  /\ poRes \in {"err", "panic"} =>
       /\ ~Did("read") /\ ~Did("encode")
       /\ pc \in {"po_ret", "po_panic", "ds_unwind", "unwind_ld", "crashed"}
       /\ Len(poLog) < Len(poArgs) \/ ~AllOk(poLog)

\* the program ended by the panic of a rejected second request
C17_Witness ==
  /\ pc = "crashed"
  /\ poRes = "err"
  /\ Len(poLog) = 2
  /\ FailedAt("parse")
  /\ Did("close")

(* ----------------------- claims on pathToEncoder ----------------------- *)

EndsWith(s, e) ==
  /\ Len(s) >= Len(e)
  /\ SubSeq(s, Len(s) - Len(e) + 1, Len(s)) = e

\* the path ends with e, spelled in any mix of upper and lower case
Spelled(e) == \E v \in CaseVariants(e) : EndsWith(fileName, v)

\* C16: once doScan has resolved the encoder of its path, a path ending in
\* .png in any case has the PNG encoder, one ending in .jpg or .jpeg the
\* JPEG encoder, one ending in .tif or .tiff the TIFF encoder, and every
\* other path (another extension, or none) has no encoder: pathToEncoder
\* returned an error and doScan panicked on it as its first step.
C16_ExtensionSelectsEncoder ==
  pc # "ds_encoder" =>
    /\ Spelled(PngExt) => (enc = "png" /\ pc = "ds_create")
    /\ (Spelled(JpgExt) \/ Spelled(JpegExt)) => (enc = "jpeg" /\ pc = "ds_create")
    /\ (Spelled(TifExt) \/ Spelled(TiffExt)) => (enc = "tiff" /\ pc = "ds_create")
    /\ ~(\/ Spelled(PngExt) \/ Spelled(JpgExt) \/ Spelled(JpegExt)
         \/ Spelled(TifExt) \/ Spelled(TiffExt)) =>
         /\ enc = "error"
         /\ pc = "unwind_ld"
         /\ dsLog = << Step("encoder", FALSE) >>

\* a path ending in a mixed-case .JpEg has been given the JPEG encoder
C16_Witness ==
  /\ pc = "ds_create"
  /\ enc = "jpeg"
  /\ EndsWith(fileName, <<".", "J", "p", "E", "g">>)

====
